---- MODULE Spec2Model ----
(***************************************************************************)
(* Model of to_dvd.py and its helpers src/ffmpeg_utils.py and              *)
(* src/audio_normalize.py: one run of the command-line program, from       *)
(* get_ffmpeg_path() through download_playlist_as_mp3().                   *)
(*                                                                         *)
(* Strings that the code inspects (the URL, file names) are tuples of      *)
(* one-character strings, so that "v=" in url and                          *)
(* f.lower().endswith(".mp3") are computed, not assumed.                   *)
(* The extraction library (yt_dlp) and the ffmpeg/ffprobe binaries are     *)
(* outside the repository: each call to them is a nondeterministic choice  *)
(* over the results the calling code distinguishes.                        *)
(***************************************************************************)
EXTENDS Integers, Sequences, FiniteSets, TLC

\* ------------------------------------------------------------------ bounds
\* Longest flat listing returned by the extraction library.
MaxEntries == 2
\* Most "finished" progress events the library emits for one item.
MaxFinished == 2
\* How many times get_ffmpeg_path is called on the same file system.
MaxCalls == 3

\* ------------------------------------------------------- program constants
\* validate_audio_duration(..., max_duration_minutes=79)
max_duration_minutes == 79

\* ----------------------------------------------------------------- strings
\* str.lower() on the characters file names are built from.
Lower(c) ==
    CASE c = "M" -> "m"
      [] c = "P" -> "p"
      [] c = "A" -> "a"
      [] OTHER -> c

LowerStr(s) == [i \in DOMAIN s |-> Lower(s[i])]

\* s.endswith(suf)
EndsWith(s, suf) ==
    /\ Len(s) >= Len(suf)
    /\ SubSeq(s, Len(s) - Len(suf) + 1, Len(s)) = suf

\* sub in s
Contains(s, sub) ==
    \E i \in 1..(Len(s) - Len(sub) + 1) : SubSeq(s, i, i + Len(sub) - 1) = sub

DotMp3 == <<".", "m", "p", "3">>

\* The single-item marker tested by download_playlist_as_mp3.
VMarker == <<"v", "=">>

\* The collection marker (never tested by the code; used to describe URLs).
ListMarker == <<"l", "i", "s", "t", "=">>

\* URLs given on the command line: video only, playlist only, both markers in
\* either order, and no marker at all.
Urls ==
    { <<"v", "=">>,
      <<"l", "i", "s", "t", "=">>,
      <<"v", "=", "&", "l", "i", "s", "t", "=">>,
      <<"l", "i", "s", "t", "=", "&", "v", "=">>,
      <<"v", "l">> }

\* ------------------------------------------------------------- environment
Machines == {"x86_64", "amd64", "aarch64", "arm64", "armv7l", "armv6l", "riscv64", "i686"}
Systems == {"linux", "darwin", "windows"}

\* Titles the library reports for downloaded items.
Titles == {"a", "b"}

\* Durations (whole seconds) around the limit.
Durations ==
    { max_duration_minutes * 60 - 1,
      max_duration_minutes * 60,
      max_duration_minutes * 60 + 1 }

\* Marker values.
Unset == "unset"

\* info before ydl.extract_info has returned.
NoInfo == [has_entries |-> FALSE, entries |-> <<>>]

\* Names the program never creates, present before the run.
StaleName == <<"o", ".", "M", "P", "3">>
StaleWav == <<"o", ".", "w", "a", "v">>

\* What a directory entry can be: os.path.isfile / islink / isdir, or none of them.
\* A "link" is a symbolic link that does not lead to a regular file.
Kinds == {"file", "link", "dir", "fifo"}

\* A symbolic link that leads to a regular file: isfile and islink both hold.
FileLink == "filelink"

\* os.path.isfile, which follows symbolic links
isfile(e) == e.kind \in {"file", FileLink}

Entry(kind, dur, norm) == [kind |-> kind, dur |-> dur, norm |-> norm]

\* Output directories a run can start from: empty, or holding one stale entry
\* (a recording longer than the limit, or something that is no regular file).
EmptyDir == [n \in {} |-> Entry("file", 0, FALSE)]

InitialDirs ==
    {EmptyDir} \cup
    { [n \in {StaleName} |-> Entry(k, max_duration_minutes * 60 + 1, FALSE)] : k \in Kinds } \cup
    { [n \in {StaleWav} |-> Entry("file", max_duration_minutes * 60 + 1, FALSE)] }

\* ------------------------------------------------------------------- state
VARIABLES
    \* environment and file system
    on_path,        \* shutil.which("ffmpeg") finds a binary
    local_bin,      \* .local/ffmpeg/ffmpeg: "absent", "not_executable", "executable"
    archive,        \* the downloaded archive: "none", "with_ffmpeg", "without_ffmpeg", "corrupt"
    dir_exists,     \* the output directory exists
    dir,            \* the output directory: name -> entry
    \* the process
    pc,             \* position in the program
    exit_status,    \* <<>> while running, <<code>> once the process has ended
    out,            \* messages printed so far (tags)
    \* get_ffmpeg_path
    machine, system, arch,
    ffmpeg_path,    \* Unset, "path" (found on PATH) or "local" (the provisioned copy)
    \* command line
    url, normalize,
    \* download_playlist_as_mp3
    is_single_video, info_noplaylist, ydl_noplaylist,
    info,           \* result of the flat extraction
    total_videos,   \* pbar.total
    pbar_n,         \* pbar.n
    downloaded_files,
    todo,           \* entries the download still has to process
    cur,            \* the item being downloaded, or Null
    completed,      \* items the library has completed
    error_code,
    \* normalize_all_mp3_files / validate_audio_duration
    mp3_files, idx, temp_file,
    invalid_files, total_duration_seconds,
    \* bookkeeping across calls
    calls,          \* invocations of get_ffmpeg_path so far
    downloads,      \* urlretrieve calls so far
    dir0            \* the output directory as normalize_all_mp3_files listed it

envVars == <<on_path, local_bin, archive, dir_exists, dir>>
procVars == <<pc, exit_status, out>>
locVars == <<machine, system, arch, ffmpeg_path>>
argVars == <<url, normalize>>
dlVars == <<is_single_video, info_noplaylist, ydl_noplaylist, info, total_videos,
            pbar_n, downloaded_files, todo, cur, completed, error_code>>
batchVars == <<mp3_files, idx, temp_file, invalid_files, total_duration_seconds>>
histVars == <<calls, downloads, dir0>>
vars == <<envVars, procVars, locVars, argVars, dlVars, batchVars, histVars>>

Init ==
    /\ on_path \in BOOLEAN
    /\ local_bin \in {"absent", "not_executable", "executable"}
    /\ archive = "none"
    /\ dir_exists \in BOOLEAN
    /\ dir \in (IF dir_exists THEN InitialDirs ELSE {EmptyDir})
    /\ pc = "get_ffmpeg_path"
    /\ exit_status = <<>>
    /\ out = {}
    /\ machine = Unset /\ system = Unset /\ arch = Unset /\ ffmpeg_path = Unset
    /\ url = <<>> /\ normalize = TRUE
    /\ is_single_video = FALSE /\ info_noplaylist = FALSE /\ ydl_noplaylist = FALSE
    /\ info = NoInfo
    /\ total_videos = 0 /\ pbar_n = 0 /\ downloaded_files = {}
    /\ todo = <<>> /\ cur = <<>> /\ completed = 0 /\ error_code = 0
    /\ mp3_files = <<>> /\ idx = 0 /\ temp_file = <<>>
    /\ invalid_files = <<>> /\ total_duration_seconds = 0
    /\ calls = 1 /\ downloads = 0 /\ dir0 = EmptyDir

\* sys.exit(code) after print(msg): the process ends.
Exit(code, msg) ==
    /\ pc' = IF code = 0 THEN "Done" ELSE "Failed"
    /\ exit_status' = <<code>>
    /\ out' = out \cup msg

\* An exception nobody catches: the interpreter prints a traceback and the
\* process ends with status 1.
Uncaught == Exit(1, {"traceback"})

\* ------------------------------------------- src/ffmpeg_utils.py
\* arch_map.get(machine, "amd64")
arch_map(m) ==
    CASE m = "x86_64" -> "amd64"
      [] m = "amd64" -> "amd64"
      [] m = "aarch64" -> "arm64"
      [] m = "arm64" -> "arm64"
      [] m = "armv7l" -> "armhf"
      [] m = "armv6l" -> "armel"
      [] OTHER -> "amd64"

KnownArchs == {"amd64", "arm64", "armhf", "armel"}

\* get_ffmpeg_path returns p to __main__, whose next step is parse_args; the
\* function's locals end with it.
LocReturn(p) ==
    /\ ffmpeg_path' = p
    /\ machine' = Unset /\ system' = Unset /\ arch' = Unset
    /\ pc' = "parse_args"
    /\ UNCHANGED <<exit_status, out>>

\* ffmpeg_path = shutil.which("ffmpeg"); if ffmpeg_path: return ffmpeg_path
LocWhich ==
    /\ pc = "get_ffmpeg_path"
    /\ IF on_path
         THEN LocReturn("path")
         ELSE /\ pc' = "loc_cached"
              /\ UNCHANGED <<exit_status, out, locVars>>
    /\ UNCHANGED <<histVars, envVars, argVars, dlVars, batchVars>>

\* A locator that never looks at the cached binary.
LocCached_skip ==
    /\ pc = "loc_cached"
    /\ pc' = "loc_platform"
    /\ UNCHANGED <<exit_status, out, locVars>>
    /\ UNCHANGED <<histVars, envVars, argVars, dlVars, batchVars>>

\* if os.path.exists(local_ffmpeg_bin) and os.access(local_ffmpeg_bin, os.X_OK)
LocCached ==
    /\ pc = "loc_cached"
    /\ IF local_bin = "executable"
         THEN LocReturn("local")
         ELSE /\ pc' = "loc_platform"
              /\ UNCHANGED <<exit_status, out, locVars>>
    /\ UNCHANGED <<histVars, envVars, argVars, dlVars, batchVars>>

\* machine, system = platform...; if system != "linux": print(...); sys.exit(1)
LocPlatform ==
    /\ pc = "loc_platform"
    /\ \E m \in Machines, s \in Systems :
         /\ machine' = m
         /\ system' = s
         /\ IF s # "linux"
              THEN Exit(1, {"ffmpeg_not_installed"})
              ELSE /\ pc' = "loc_arch"
                   /\ UNCHANGED <<exit_status, out>>
    /\ UNCHANGED <<histVars, envVars, arch, ffmpeg_path, argVars, dlVars, batchVars>>

\* arch = arch_map.get(machine, "amd64"); if arch not in [...]: print; sys.exit(1)
LocArch ==
    /\ pc = "loc_arch"
    /\ arch' = arch_map(machine)
    /\ IF arch_map(machine) \notin KnownArchs
         THEN Exit(1, {"unsupported_architecture"})
         ELSE /\ pc' = "loc_download"
              /\ UNCHANGED <<exit_status, out>>
    /\ UNCHANGED <<histVars, envVars, machine, system, ffmpeg_path, argVars, dlVars, batchVars>>

\* os.makedirs; urllib.request.urlretrieve(url, archive_path), which raises or
\* leaves an archive whose content the remote site decides.
LocDownload ==
    /\ pc = "loc_download"
    /\ \E a \in {"none", "with_ffmpeg", "without_ffmpeg", "corrupt"} :
         /\ archive' = a
         /\ IF a = "none"
              THEN Exit(1, {"download_ffmpeg_failed"})
              ELSE /\ pc' = "loc_extract"
                   /\ UNCHANGED <<exit_status, out>>
    /\ downloads' = downloads + 1
    /\ UNCHANGED <<calls, dir0, on_path, local_bin, dir_exists, dir, locVars, argVars, dlVars, batchVars>>

\* tarfile.open(...): extract the first regular member named .../ffmpeg, if any.
\* Opening a corrupt archive raises, which the except clause reports.
LocExtract ==
    /\ pc = "loc_extract"
    /\ CASE archive = "corrupt" ->
               /\ Exit(1, {"extract_ffmpeg_failed"})
               /\ UNCHANGED local_bin
          [] archive = "with_ffmpeg" ->
               /\ local_bin' = "not_executable"
               /\ pc' = "loc_chmod"
               /\ UNCHANGED <<exit_status, out>>
          [] OTHER ->
               /\ pc' = "loc_chmod"
               /\ UNCHANGED <<local_bin, exit_status, out>>
    /\ UNCHANGED <<histVars, on_path, archive, dir_exists, dir, locVars, argVars, dlVars, batchVars>>

\* What os.chmod(local_ffmpeg_bin, 0o755) leaves behind, given the file: the
\* permission bits are set, and os.access(X_OK) then answers as the file system
\* allows (a noexec mount refuses).
chmod_results(bin) == {"executable", "not_executable"}

\* os.chmod(local_ffmpeg_bin, ...): raises FileNotFoundError, which nothing
\* catches, when no member was extracted and no file is there.
LocChmod ==
    /\ pc = "loc_chmod"
    /\ IF local_bin = "absent"
         THEN /\ Uncaught
              /\ UNCHANGED local_bin
         ELSE /\ local_bin' \in chmod_results(local_bin)
              /\ pc' = "loc_cleanup"
              /\ UNCHANGED <<exit_status, out>>
    /\ UNCHANGED <<histVars, on_path, archive, dir_exists, dir, locVars, argVars, dlVars, batchVars>>

\* os.remove(archive_path)
LocCleanup ==
    /\ pc = "loc_cleanup"
    /\ archive' = "none"
    /\ pc' = "loc_verify"
    /\ UNCHANGED <<histVars, on_path, local_bin, dir_exists, dir, exit_status, out,
                   locVars, argVars, dlVars, batchVars>>

\* if not exists or not os.access(X_OK): print; sys.exit(1) -- else return
LocVerify ==
    /\ pc = "loc_verify"
    /\ IF local_bin # "executable"
         THEN /\ Exit(1, {"setup_ffmpeg_failed"})
              /\ UNCHANGED locVars
         ELSE /\ ffmpeg_path' = "local"
              /\ machine' = Unset /\ system' = Unset /\ arch' = Unset
              /\ out' = out \cup {"ffmpeg_installed"}
              /\ pc' = "parse_args"
              /\ UNCHANGED exit_status
    /\ UNCHANGED <<histVars, envVars, argVars, dlVars, batchVars>>

get_ffmpeg_path ==
    \/ LocWhich \/ LocCached \/ LocPlatform \/ LocArch \/ LocDownload
    \/ LocExtract \/ LocChmod \/ LocCleanup \/ LocVerify

\* ------------------------------------------------------- to_dvd.py
\* args = parser.parse_args()
ParseArgs ==
    /\ pc = "parse_args"
    /\ url' \in Urls
    /\ normalize' \in BOOLEAN
    /\ pc' = "Clean"
    /\ UNCHANGED <<histVars, envVars, exit_status, out, locVars, dlVars, batchVars>>

\* The entries the cleaning loop leaves: it removes files, links and directories.
cleaned(d) ==
    [n \in {m \in DOMAIN d : ~isfile(d[m]) /\ d[m].kind \notin {"link", "dir"}} |-> d[n]]

\* Clean output directory: remove all existing files before downloading
Clean ==
    /\ pc = "Clean"
    /\ IF dir_exists
         THEN /\ dir' = cleaned(dir)
              /\ out' = out \cup {"cleaned_output_directory"}
              /\ UNCHANGED dir_exists
         ELSE /\ dir_exists' = TRUE
              /\ out' = out \cup {"created_output_directory"}
              /\ UNCHANGED dir
    /\ pc' = "Enumerate"
    /\ UNCHANGED <<histVars, on_path, local_bin, archive, exit_status, locVars, argVars, dlVars, batchVars>>

\* is_single_video = "v=" in playlist_url
single_video(u) == Contains(u, VMarker)

\* info_opts["noplaylist"]
info_opts_noplaylist(single) == single

\* A variant of ydl_opts_noplaylist: "noplaylist": False, as in mp3.py.
ydl_opts_noplaylist_false(single) == FALSE

\* ydl_opts["noplaylist"]
ydl_opts_noplaylist(single) == single

\* Flat listings of at most MaxEntries entries; FALSE stands for a None entry.
Listings == UNION { [1..n -> BOOLEAN] : n \in 0..MaxEntries }

\* What ydl.extract_info(url, download=False) can return: in single-item mode
\* one item without an "entries" key, otherwise that or a listing.
extract_info(noplaylist) ==
    {NoInfo} \cup
    (IF noplaylist THEN {} ELSE { [has_entries |-> TRUE, entries |-> l] : l \in Listings })

\* len([e for e in info["entries"] if e is not None]), or 1 without "entries"
count_videos(i) ==
    IF i.has_entries THEN Len(SelectSeq(i.entries, LAMBDA e : e)) ELSE 1

\* Lines 41-82: the flat enumeration that sizes the progress bar.
\* extract_info raises when the library cannot read the URL.
Enumerate ==
    /\ pc = "Enumerate"
    /\ is_single_video' = single_video(url)
    /\ info_noplaylist' = info_opts_noplaylist(single_video(url))
    /\ \/ /\ Exit(1, {"library_error", "traceback"})
          /\ UNCHANGED <<info, total_videos>>
       \/ /\ info' \in extract_info(info_opts_noplaylist(single_video(url)))
          /\ total_videos' = count_videos(info')
          /\ pc' = "Transcode"
          /\ UNCHANGED <<exit_status, out>>
    /\ pbar_n' = 0
    /\ downloaded_files' = {}
    /\ UNCHANGED <<histVars, envVars, locVars, argVars, ydl_noplaylist, todo, cur, completed,
                   error_code, batchVars>>

\* The items ydl.download works through: one in single-item mode, otherwise the
\* listing (or one item, for a URL that is no collection).
download_items(noplaylist, i) ==
    IF noplaylist \/ ~i.has_entries THEN <<TRUE>> ELSE i.entries

\* ydl_opts = {...}; with yt_dlp.YoutubeDL(ydl_opts) as ydl: ydl.download([url])
DownloadStart ==
    /\ pc = "Transcode"
    /\ ydl_noplaylist' = ydl_opts_noplaylist(is_single_video)
    /\ todo' = download_items(ydl_opts_noplaylist(is_single_video), info)
    /\ cur' = <<>>
    /\ completed' = 0
    /\ pc' = "transcode_loop"
    /\ UNCHANGED <<histVars, envVars, exit_status, out, locVars, argVars, is_single_video,
                   info_noplaylist, info, total_videos, pbar_n, downloaded_files,
                   error_code, batchVars>>

\* outtmpl "%(title)s.%(ext)s" for the downloaded stream, and after
\* FFmpegExtractAudio with preferredcodec mp3.
DownloadName(title) == <<title, ".", "w", "e", "b", "m">>
Mp3Name(title) == <<title>> \o DotMp3

\* The library turns to the next entry: a None entry is passed over, another
\* becomes the item in progress, with the title, duration and hook file name
\* (absent: d.get("filename", "") gives "") the library reports for it.
ItemStart ==
    /\ pc = "transcode_loop"
    /\ cur = <<>>
    /\ todo # <<>>
    /\ IF Head(todo)
         THEN /\ \E t \in Titles, d \in Durations :
                   \E f \in {DownloadName(t), <<>>} :
                     cur' = << [title |-> t, dur |-> d, filename |-> f, finished |-> 0] >>
              /\ UNCHANGED todo
         ELSE /\ todo' = Tail(todo)
              /\ UNCHANGED cur
    /\ UNCHANGED <<histVars, envVars, procVars, locVars, argVars, is_single_video, info_noplaylist,
                   ydl_noplaylist, info, total_videos, pbar_n, downloaded_files,
                   completed, error_code, batchVars>>

\* progress_hook(d): the new (downloaded_files, pbar.n)
hook_counts(status, filename, files, n) ==
    IF status = "finished" /\ filename # <<>> /\ filename \notin files
      THEN [files |-> files \cup {filename}, n |-> n + 1]
      ELSE [files |-> files, n |-> n]

\* The library calls progress_hook for the item in progress.
progress_hook ==
    /\ pc = "transcode_loop"
    /\ cur # <<>>
    /\ \E status \in {"downloading", "finished"} :
         /\ status = "finished" => cur[1].finished < MaxFinished
         /\ LET r == hook_counts(status, cur[1].filename, downloaded_files, pbar_n) IN
              /\ downloaded_files' = r.files
              /\ pbar_n' = r.n
         /\ cur' = IF status = "finished"
                      THEN << [cur[1] EXCEPT !.finished = @ + 1] >>
                      ELSE cur
    /\ UNCHANGED <<histVars, envVars, procVars, locVars, argVars, is_single_video, info_noplaylist,
                   ydl_noplaylist, info, total_videos, todo, completed, error_code,
                   batchVars>>

\* The item has been downloaded (at least one "finished" event) and the
\* postprocessor writes <title>.mp3 into the output directory.
ItemDone ==
    /\ pc = "transcode_loop"
    /\ cur # <<>>
    /\ cur[1].finished >= 1
    /\ dir' = [n \in DOMAIN dir \cup {Mp3Name(cur[1].title)} |->
                 IF n = Mp3Name(cur[1].title)
                   THEN Entry("file", cur[1].dur, FALSE)
                   ELSE dir[n]]
    /\ completed' = completed + 1
    /\ todo' = Tail(todo)
    /\ cur' = <<>>
    /\ UNCHANGED <<histVars, on_path, local_bin, archive, dir_exists, procVars, locVars, argVars,
                   is_single_video, info_noplaylist, ydl_noplaylist, info, total_videos,
                   pbar_n, downloaded_files, error_code, batchVars>>

\* Non-zero codes ydl.download can return.
ErrorCodes == {1, 2}

\* if error_code != 0: print(...); sys.exit(1)
download_exit(code) == 1

\* The download fails: ydl.download returns a non-zero code (lines 136-140), or
\* raises, the library having printed its error.
DownloadFail ==
    /\ pc = "transcode_loop"
    /\ \/ \E c \in ErrorCodes :
            /\ error_code' = c
            /\ Exit(download_exit(c), {"playlist_download_failed"})
       \/ /\ Exit(1, {"library_error", "traceback"})
          /\ UNCHANGED error_code
    /\ UNCHANGED <<histVars, envVars, locVars, argVars, is_single_video, info_noplaylist,
                   ydl_noplaylist, info, total_videos, pbar_n, downloaded_files, todo,
                   cur, completed, batchVars>>

\* A variant of after_download that never normalizes.
after_download_skip(norm) == "Validate"

\* The stage that follows the download.
after_download(norm) == IF norm THEN "Normalize" ELSE "Validate"

\* ydl.download returns 0; pbar.close(); print("...completed successfully!")
DownloadReturn ==
    /\ pc = "transcode_loop"
    /\ cur = <<>>
    /\ todo = <<>>
    /\ error_code' = 0
    /\ out' = out \cup {"playlist_download_completed"}
    /\ pc' = after_download(normalize)
    /\ UNCHANGED <<histVars, envVars, exit_status, locVars, argVars, is_single_video,
                   info_noplaylist, ydl_noplaylist, info, total_videos, pbar_n,
                   downloaded_files, todo, cur, completed, batchVars>>

\* ------------------------------------------- src/audio_normalize.py
\* f.lower().endswith(".mp3") and os.path.isfile(os.path.join(output_dir, f))
is_mp3_file(d, n) == EndsWith(LowerStr(n), DotMp3) /\ isfile(d[n])

\* A listing that keeps every name ending in .mp3, regular file or not.
list_mp3_any_entry(d) == {n \in DOMAIN d : EndsWith(LowerStr(n), DotMp3)}

\* The names the list comprehension over os.listdir keeps.
list_mp3(d) == {n \in DOMAIN d : is_mp3_file(d, n)}

\* os.listdir gives the names in an arbitrary order: every ordering of S.
Orders(S) ==
    {q \in [1..Cardinality(S) -> S] : \A i, j \in 1..Cardinality(S) : q[i] = q[j] => i = j}

\* Names tempfile.mkstemp(suffix=".mp3", dir=...) can pick.
TempNames == { <<"t", "1">> \o DotMp3, <<"t", "2">> \o DotMp3 }

\* ffmpeg -af loudnorm: the audio of e at the target loudness.
normalized(e) == Entry("file", e.dur, TRUE)

\* os.remove(n)
remove(d, n) == [m \in DOMAIN d \ {n} |-> d[m]]

\* A variant of replace that drops src and leaves dst as it was.
replace_drop(d, src, dst) == remove(d, src)

\* os.replace(src, dst)
replace(d, src, dst) ==
    [m \in (DOMAIN d \ {src}) \cup {dst} |-> IF m = dst THEN d[src] ELSE d[m]]

\* normalize_all_mp3_files, lines 73-89: list the files; none is a no-op.
NormList ==
    /\ pc = "Normalize"
    /\ IF ~dir_exists
         THEN /\ Exit(1, {"output_directory_not_found"})
              /\ UNCHANGED <<mp3_files, idx>>
         ELSE \E q \in Orders(list_mp3(dir)) :
                /\ mp3_files' = q
                /\ IF q = <<>>
                     THEN /\ out' = out \cup {"no_mp3_to_normalize"}
                          /\ pc' = "Validate"
                          /\ UNCHANGED <<exit_status, idx>>
                     ELSE /\ idx' = 1
                          /\ pc' = "norm_temp"
                          /\ UNCHANGED <<exit_status, out>>
    /\ dir0' = dir
    /\ UNCHANGED <<calls, downloads, envVars, locVars, argVars, dlVars, temp_file,
                   invalid_files, total_duration_seconds>>

\* normalize_audio_volume, lines 21-29: the input must exist; mkstemp creates
\* an empty temporary file beside it.
NormTemp ==
    /\ pc = "norm_temp"
    /\ IF mp3_files[idx] \notin DOMAIN dir
         THEN /\ Exit(1, {"input_file_not_found"})
              /\ UNCHANGED <<dir, temp_file>>
         ELSE \E t \in TempNames \ DOMAIN dir :
                /\ temp_file' = t
                /\ dir' = [n \in DOMAIN dir \cup {t} |->
                             IF n = t THEN Entry("file", 0, FALSE) ELSE dir[n]]
                /\ pc' = "norm_ffmpeg"
                /\ UNCHANGED <<exit_status, out>>
    /\ UNCHANGED <<histVars, on_path, local_bin, archive, dir_exists, locVars, argVars, dlVars,
                   mp3_files, idx, invalid_files, total_duration_seconds>>

\* A variant of after_ffmpeg that leaves the temporary file behind on failure.
after_ffmpeg_keep_temp(d, rc, input, temp) ==
    IF rc # 0
      THEN d
      ELSE replace([d EXCEPT ![temp] = normalized(d[input])], temp, input)

\* The directory after normalize_audio_volume's last lines, for ffmpeg's return
\* code rc: the temporary file is removed (rc != 0), or holds the normalized
\* audio and replaces the input.
after_ffmpeg(d, rc, input, temp) ==
    IF rc # 0
      THEN remove(d, temp)
      ELSE replace([d EXCEPT ![temp] = normalized(d[input])], temp, input)

\* normalize_audio_volume, lines 47-59, and the loop's pbar.update(1).
NormRun ==
    /\ pc = "norm_ffmpeg"
    /\ \E rc \in {0, 1} :
         /\ dir' = after_ffmpeg(dir, rc, mp3_files[idx], temp_file)
         /\ IF rc # 0
              THEN /\ Exit(1, {"normalize_failed"})
                   /\ UNCHANGED idx
              ELSE /\ idx' = idx + 1
                   /\ IF idx + 1 > Len(mp3_files)
                        THEN /\ out' = out \cup {"normalization_completed"}
                             /\ pc' = "Validate"
                        ELSE /\ pc' = "norm_temp"
                             /\ UNCHANGED out
                   /\ UNCHANGED exit_status
    /\ temp_file' = <<>>
    /\ UNCHANGED <<histVars, on_path, local_bin, archive, dir_exists, locVars, argVars, dlVars,
                   mp3_files, invalid_files, total_duration_seconds>>

\* What the probing tool prints for a file.
ProbeOutputs == {"fails", "empty", "number", "garbage"}

\* ffmpeg's "Duration: HH:MM:SS" for d seconds, split at ":".
HMS(d) == <<d \div 3600, (d % 3600) \div 60, d % 60>>

\* get_audio_duration: [status, value, msg] for a file of true duration d, with
\* ffprobe or the ffmpeg fallback, the tool printing o.
get_audio_duration(d, has_ffprobe, o) ==
    CASE o = "fails" ->
           [status |-> "exit", value |-> 0, msg |-> "get_duration_failed"]
      [] o # "fails" /\ has_ffprobe /\ o = "empty" ->
           [status |-> "exit", value |-> 0, msg |-> "extract_duration_failed"]
      [] o # "fails" /\ has_ffprobe /\ o = "garbage" ->
           [status |-> "raise", value |-> 0, msg |-> "traceback"]
      [] o # "fails" /\ has_ffprobe /\ o = "number" ->
           [status |-> "ok", value |-> d, msg |-> ""]
      [] o # "fails" /\ ~has_ffprobe /\ o = "empty" ->
           [status |-> "exit", value |-> 0, msg |-> "extract_duration_failed"]
      [] o # "fails" /\ ~has_ffprobe /\ o = "garbage" ->
           [status |-> "exit", value |-> 0, msg |-> "parse_duration_failed"]
      [] OTHER ->
           [status |-> "ok",
            value |-> HMS(d)[1] * 3600 + HMS(d)[2] * 60 + HMS(d)[3],
            msg |-> ""]

\* Variants of exceeds: one second of tolerance, and the limit itself included.
exceeds_tolerant(duration) == duration > max_duration_minutes * 60 + 1

exceeds_inclusive(duration) == duration >= max_duration_minutes * 60

\* if duration > max_duration_seconds
exceeds(duration) == duration > max_duration_minutes * 60

\* validate_audio_duration, lines 227-247: list the files; none is a no-op,
\* after which the program ends.
ValList ==
    /\ pc = "Validate"
    /\ IF ~dir_exists
         THEN /\ Exit(1, {"output_directory_not_found"})
              /\ UNCHANGED <<mp3_files, idx>>
         ELSE \E q \in Orders(list_mp3(dir)) :
                /\ mp3_files' = q
                /\ IF q = <<>>
                     THEN /\ Exit(0, {"no_mp3_to_validate"})
                          /\ UNCHANGED idx
                     ELSE /\ idx' = 1
                          /\ pc' = "val_probe"
                          /\ UNCHANGED <<exit_status, out>>
    /\ invalid_files' = <<>>
    /\ total_duration_seconds' = 0
    /\ UNCHANGED <<histVars, envVars, locVars, argVars, dlVars, temp_file>>

\* validate_audio_duration, lines 257-266: one pass of the loop. invalid_files
\* keeps the duration in seconds (the code keeps duration / 60).
ValProbe ==
    /\ pc = "val_probe"
    /\ IF mp3_files[idx] \notin DOMAIN dir
         THEN /\ Exit(1, {"file_not_found"})
              /\ UNCHANGED <<idx, invalid_files, total_duration_seconds>>
         ELSE \E has_ffprobe \in BOOLEAN, o \in ProbeOutputs :
                LET r == get_audio_duration(dir[mp3_files[idx]].dur, has_ffprobe, o) IN
                  IF r.status # "ok"
                    THEN /\ Exit(1, {r.msg})
                         /\ UNCHANGED <<idx, invalid_files, total_duration_seconds>>
                    ELSE /\ total_duration_seconds' = total_duration_seconds + r.value
                         /\ invalid_files' =
                              IF exceeds(r.value)
                                THEN Append(invalid_files, <<mp3_files[idx], r.value>>)
                                ELSE invalid_files
                         /\ idx' = idx + 1
                         /\ pc' = IF idx + 1 > Len(mp3_files) THEN "val_report" ELSE "val_probe"
                         /\ UNCHANGED <<exit_status, out>>
    /\ UNCHANGED <<histVars, envVars, locVars, argVars, dlVars, mp3_files, temp_file>>

\* validate_audio_duration, lines 268-291: the report; with no violation the
\* function returns and the program ends.
ValReport ==
    /\ pc = "val_report"
    /\ IF invalid_files # <<>>
         THEN Exit(1, {"exceed_maximum_duration"})
         ELSE Exit(0, {"all_files_valid", "total_playlist_duration"})
    /\ UNCHANGED <<histVars, envVars, locVars, argVars, dlVars, batchVars>>

download_playlist_as_mp3 ==
    \/ Clean \/ Enumerate \/ DownloadStart \/ ItemStart \/ progress_hook \/ ItemDone
    \/ DownloadFail \/ DownloadReturn
    \/ NormList \/ NormTemp \/ NormRun
    \/ ValList \/ ValProbe \/ ValReport

Next == get_ffmpeg_path \/ ParseArgs \/ download_playlist_as_mp3

\* ffmpeg_path = get_ffmpeg_path() at the top of __main__, in a later run of the
\* program: a new process (fresh locals, output and status) on the file system
\* and PATH the earlier calls left.
NextCall ==
    /\ pc \in {"parse_args", "Failed"}
    /\ calls < MaxCalls
    /\ calls' = calls + 1
    /\ pc' = "get_ffmpeg_path"
    /\ exit_status' = <<>>
    /\ out' = {}
    /\ machine' = Unset /\ system' = Unset /\ arch' = Unset /\ ffmpeg_path' = Unset
    /\ UNCHANGED <<downloads, dir0, envVars, argVars, dlVars, batchVars>>

\* Directories normalize_all_mp3_files can be called on: any subset of five
\* names, each entry of one of the kinds listed for its name, nothing normalized
\* yet, every entry with a duration of its own.
NormNames == {Mp3Name("a"), Mp3Name("b"), StaleName, StaleWav, <<"t", "1">> \o DotMp3}

NormKinds(n) ==
    CASE n = Mp3Name("a") -> {"file", FileLink}
      [] n = Mp3Name("b") -> {"file", "dir"}
      [] n = StaleName -> {"file", "link", "fifo"}
      [] OTHER -> {"file"}

NormDur(n) ==
    CASE n = Mp3Name("a") -> 1
      [] n = Mp3Name("b") -> 2
      [] n = StaleName -> 3
      [] n = StaleWav -> 4
      [] OTHER -> 5

NormDirs ==
    UNION { { [n \in S |-> Entry(k[n], NormDur(n), FALSE)] :
                k \in {h \in [S -> Kinds \cup {FileLink}] : \A n \in S : h[n] \in NormKinds(n)} } :
            S \in SUBSET NormNames }

\* normalize_all_mp3_files(output_dir, ffmpeg_path) called on such a directory.
InitNormalize ==
    /\ on_path = TRUE /\ local_bin = "absent" /\ archive = "none"
    /\ dir_exists \in BOOLEAN
    /\ dir \in (IF dir_exists THEN NormDirs ELSE {EmptyDir})
    /\ pc = "Normalize"
    /\ exit_status = <<>>
    /\ out = {}
    /\ machine = Unset /\ system = Unset /\ arch = Unset /\ ffmpeg_path = "path"
    /\ url = <<>> /\ normalize = TRUE
    /\ is_single_video = FALSE /\ info_noplaylist = FALSE /\ ydl_noplaylist = FALSE
    /\ info = NoInfo
    /\ total_videos = 0 /\ pbar_n = 0 /\ downloaded_files = {}
    /\ todo = <<>> /\ cur = <<>> /\ completed = 0 /\ error_code = 0
    /\ mp3_files = <<>> /\ idx = 0 /\ temp_file = <<>>
    /\ invalid_files = <<>> /\ total_duration_seconds = 0
    /\ calls = 1 /\ downloads = 0 /\ dir0 = EmptyDir

normalize_all_mp3_files == NormList \/ NormTemp \/ NormRun

\* One call of normalize_all_mp3_files, nothing else.
SpecNormalize == InitNormalize /\ [][normalize_all_mp3_files]_vars

NextLocator == get_ffmpeg_path \/ NextCall

\* Repeated calls of get_ffmpeg_path, nothing else.
SpecLocator == Init /\ [][NextLocator]_vars

Spec == Init /\ [][Next]_vars

\* ================================================================== claims

\* The stage of download_playlist_as_mp3 a position belongs to.
Stage(p) ==
    CASE p = "Clean" -> "Clean"
      [] p = "Enumerate" -> "Enumerate"
      [] p \in {"Transcode", "transcode_loop"} -> "Transcode"
      [] p \in {"Normalize", "norm_temp", "norm_ffmpeg"} -> "Normalize"
      [] p \in {"Validate", "val_probe", "val_report"} -> "Validate"
      [] p = "Done" -> "Done"
      [] p = "Failed" -> "Failed"
      [] OTHER -> "Start"

Limit == max_duration_minutes * 60

Mp3Files == list_mp3(dir)

\* C1: the stages of a run occur only in the order Clean, Enumerate, Transcode,
\* Normalize (exactly when normalization is enabled), Validate, Done; a stage is
\* left for the next one only when it has completed for all files; a fatal error
\* leads straight to Failed with a non-zero exit status and nothing runs after it.
C1_StageStep ==
    LET a == Stage(pc)
        b == Stage(pc')
    IN  \/ a = b /\ a \notin {"Done", "Failed"}
        \/ a = "Start" /\ b = "Clean"
        \/ a = "Clean" /\ b = "Enumerate"
        \/ a = "Enumerate" /\ b = "Transcode"
        \/ /\ a = "Transcode" /\ b = "Normalize"
           /\ normalize /\ todo = <<>> /\ cur = <<>>
        \/ /\ a = "Transcode" /\ b = "Validate"
           /\ ~normalize /\ todo = <<>> /\ cur = <<>>
        \/ /\ a = "Normalize" /\ b = "Validate"
           /\ temp_file' = <<>>
           /\ \A n \in list_mp3(dir') : dir'[n].norm
        \/ /\ a = "Validate" /\ b = "Done"
           /\ exit_status' = <<0>>
           /\ (mp3_files' = <<>> \/ idx' = Len(mp3_files') + 1)
        \/ /\ a \notin {"Done", "Failed"} /\ b = "Failed"
           /\ Len(exit_status') = 1 /\ exit_status'[1] # 0

C1_StageOrder == [][C1_StageStep]_vars

C1_Witness ==
    /\ pc = "Done"
    /\ "normalization_completed" \in out
    /\ Cardinality(Mp3Files) = 2

\* C2: a run that ends with exit status 0 leaves no file longer than
\* max_duration_minutes * 60 seconds in the output directory; while such a file
\* is there, the run has neither ended with status 0 nor reported success.
C2_DurationLimit ==
    /\ exit_status = <<0>> =>
         \A n \in DOMAIN dir : dir[n].kind = "file" => dir[n].dur <= Limit
    /\ (\E n \in DOMAIN dir : dir[n].kind = "file" /\ dir[n].dur > Limit) =>
         /\ exit_status # <<0>>
         /\ "all_files_valid" \notin out

C2_Witness ==
    /\ exit_status = <<0>>
    /\ "cleaned_output_directory" \in out
    /\ Cardinality(Mp3Files) = 2
    /\ \E n \in Mp3Files : dir[n].dur = Limit

\* C3 as stated: after a run that ends with exit status 0, whatever the run
\* configuration, every audio file of the output directory is normalized.
C3_Original ==
    exit_status = <<0>> => \A n \in Mp3Files : dir[n].norm

\* C3 amended: after a run with normalization enabled that ends with exit
\* status 0, every audio file of the output directory is normalized.
C3_NormalizedWhenEnabled ==
    (exit_status = <<0>> /\ normalize) => \A n \in Mp3Files : dir[n].norm

C3_Witness ==
    /\ exit_status = <<0>>
    /\ normalize
    /\ Cardinality(Mp3Files) = 2

\* The machine values arch_map lists.
SupportedMachines == {"x86_64", "amd64", "aarch64", "arm64", "armv7l", "armv6l"}

\* C4: once the architecture is resolved, a supported machine has exactly one of
\* the four identifiers and goes on; any other machine has ended the process
\* with the unsupported-architecture error and no identifier is downloaded.
C4_ArchResolution ==
    arch # Unset =>
      /\ machine \in SupportedMachines =>
           /\ arch \in KnownArchs
           /\ "unsupported_architecture" \notin out
      /\ machine \notin SupportedMachines =>
           /\ pc = "Failed"
           /\ "unsupported_architecture" \in out
           /\ archive = "none"

\* The files of the batch whose duration is strictly greater than the limit.
Violators == {n \in {mp3_files[i] : i \in DOMAIN mp3_files} : n \in DOMAIN dir /\ dir[n].dur > Limit}

\* The files validate_audio_duration has put on its violation list.
Listed == {invalid_files[i][1] : i \in DOMAIN invalid_files}

C6_FailStep ==
    /\ (pc = "norm_ffmpeg" /\ pc' = "Failed") =>
         /\ "normalize_failed" \in out'
         /\ exit_status' = <<1>>
         /\ DOMAIN dir' \cap TempNames = {}
         /\ DOMAIN dir' = DOMAIN dir \ {temp_file}
         /\ \A n \in DOMAIN dir' : dir'[n] = dir[n]
         /\ \A i \in 1..(idx - 1) : dir'[mp3_files[i]].norm
         /\ \A i \in idx..Len(mp3_files) : ~dir'[mp3_files[i]].norm
    /\ "normalize_failed" \in out => dir' = dir

C7_ProgressCount ==
    (Stage(pc) \in {"Transcode", "Normalize", "Validate", "Done"} /\ cur = <<>>) =>
      pbar_n = completed

\* The URLs that contain the single-item marker.
UrlsWithV ==
    { <<"v", "=">>,
      <<"v", "=", "&", "l", "i", "s", "t", "=">>,
      <<"l", "i", "s", "t", "=", "&", "v", "=">> }

\* C8: once the download has been set up, a URL with the marker v= has both the
\* flat enumeration and the download in single-item mode, also when list= is
\* present, and the run handles exactly one item; a URL without the marker has
\* both in collection mode.
C8_SingleItemMode ==
    Stage(pc) \in {"Normalize", "Validate", "Done"} \/ pc = "transcode_loop" =>
      /\ url \in UrlsWithV =>
           /\ info_noplaylist /\ ydl_noplaylist
           /\ completed + Len(todo) = 1
           /\ total_videos = 1
      /\ url \notin UrlsWithV => ~info_noplaylist /\ ~ydl_noplaylist

C8_Witness ==
    /\ pc = "Done"
    /\ Contains(url, VMarker) /\ Contains(url, ListMarker)
    /\ completed = 1
    /\ Cardinality(Mp3Files) = 1

\* Messages the program or the library prints for a fatal condition (the
\* interpreter's traceback is not one).
FatalMessages ==
    {"ffmpeg_not_installed", "unsupported_architecture", "download_ffmpeg_failed",
     "extract_ffmpeg_failed", "setup_ffmpeg_failed", "library_error",
     "playlist_download_failed", "output_directory_not_found", "input_file_not_found",
     "normalize_failed", "file_not_found", "get_duration_failed",
     "extract_duration_failed", "parse_duration_failed", "exceed_maximum_duration"}

\* C9: the exit status is 0 exactly when the run reached the end of every stage,
\* and 1 for every fatal condition, each of which has printed a message.
C9_ExitStatus ==
    /\ exit_status = <<0>> <=> pc = "Done"
    /\ pc = "Failed" =>
         /\ exit_status = <<1>>
         /\ out \cap FatalMessages # {}
    /\ pc \notin {"Done", "Failed"} => exit_status = <<>>

\* Messages get_ffmpeg_path prints before sys.exit(1).
LocatorMessages ==
    {"ffmpeg_not_installed", "unsupported_architecture", "download_ffmpeg_failed",
     "extract_ffmpeg_failed", "setup_ffmpeg_failed"}

\* C10: a path get_ffmpeg_path has returned exists and is executable; a failure
\* inside get_ffmpeg_path ends the process with a non-zero status after one of
\* its messages, leaving no archive behind for a retry.
C10_Provisioning ==
    /\ ffmpeg_path = "path" => on_path
    /\ ffmpeg_path = "local" => local_bin = "executable"
    /\ (pc = "Failed" /\ ffmpeg_path = Unset) =>
         /\ Len(exit_status) = 1 /\ exit_status[1] # 0
         /\ out \cap LocatorMessages # {}

\* The number of entries of the flat listing that are not None (1 without a listing).
NonNullEntries ==
    IF info.has_entries
      THEN Cardinality({i \in DOMAIN info.entries : info.entries[i]})
      ELSE 1

\* C11: once enumerated, the progress-bar total is the number of non-null
\* entries of the flat listing (1 for a bare item); when the run has ended with
\* status 0, the progress count and the number of output files equal it too.
C11_Totals ==
    /\ Stage(pc) \in {"Transcode", "Normalize", "Validate", "Done"} =>
         total_videos = NonNullEntries
    /\ pc = "Done" =>
         /\ pbar_n = total_videos
         /\ Cardinality(Mp3Files) = total_videos

\* One step of the locator, as C12 describes it.
C12_Step ==
    \* a binary on PATH is returned at once, before the cache is looked at
    /\ (pc = "get_ffmpeg_path" /\ on_path) =>
          /\ pc' = "parse_args" /\ ffmpeg_path' = "path"
          /\ downloads' = downloads
    /\ pc' = "loc_cached" => ~on_path
    \* then the cached binary, when it exists and is executable
    /\ (pc = "loc_cached" /\ local_bin = "executable") =>
          /\ pc' = "parse_args" /\ ffmpeg_path' = "local"
          /\ downloads' = downloads
    /\ pc' = "loc_platform" => (~on_path /\ local_bin # "executable")
    \* a download is attempted only when neither exists and the platform is Linux
    /\ downloads' # downloads =>
          /\ ~on_path /\ local_bin # "executable" /\ system = "linux"
          /\ downloads' = downloads + 1
    \* elsewhere: installation instructions, failure, no download
    /\ (pc = "loc_platform" /\ system' # "linux") =>
          /\ pc' = "Failed" /\ exit_status' = <<1>>
          /\ "ffmpeg_not_installed" \in out'
          /\ downloads' = downloads /\ archive' = archive /\ local_bin' = local_bin
    \* a provisioned binary stays, and nothing is downloaded while it is there
    /\ local_bin = "executable" =>
          (local_bin' = "executable" /\ downloads' = downloads)
    /\ "ffmpeg_installed" \in out' => local_bin' = "executable"

\* C12: get_ffmpeg_path returns a binary found on PATH first, then the cached
\* local binary; it downloads only when neither exists and the platform is
\* Linux; on another platform it fails with installation instructions and
\* downloads nothing; once a call has provisioned the binary, later calls return
\* the cached one and download nothing.
C12_Locator == [][C12_Step]_vars

\* The second call returns the binary the first call downloaded.
C12_Witness ==
    /\ calls = 2 /\ downloads = 1
    /\ pc = "parse_args" /\ ffmpeg_path = "local"
    /\ ~on_path /\ "ffmpeg_installed" \notin out

\* One step of normalize_all_mp3_files, as C13 describes it.
C13_Step ==
    \* ffmpeg has run on the current file and succeeded
    /\ (pc = "norm_ffmpeg" /\ pc' # "Failed") =>
          LET f == mp3_files[idx] IN
            /\ is_mp3_file(dir0, f)
            /\ temp_file \notin DOMAIN dir0
            /\ dir[f] = dir0[f]
            /\ dir'[f] = normalized(dir0[f])
            /\ DOMAIN dir' = DOMAIN dir \ {temp_file}
            /\ \A n \in DOMAIN dir' \ {f} : dir'[n] = dir[n]
    \* nothing else changes a listed entry or one that was there at the start
    /\ pc # "norm_ffmpeg" => \A n \in DOMAIN dir : (n \in DOMAIN dir' /\ dir'[n] = dir[n])
    /\ pc' \in {"norm_temp", "norm_ffmpeg"} => list_mp3(dir0') # {}
    \* no file qualifies: success at once, nothing touched
    /\ (pc = "Normalize" /\ dir_exists /\ \A n \in DOMAIN dir : ~is_mp3_file(dir, n)) =>
          /\ pc' = "Validate" /\ exit_status' = <<>>
          /\ dir' = dir
    \* the function has returned
    /\ pc' = "Validate" =>
          /\ DOMAIN dir' = DOMAIN dir0'
          /\ \A n \in DOMAIN dir0' :
                dir'[n] = IF is_mp3_file(dir0', n) THEN normalized(dir0'[n]) ELSE dir0'[n]

\* C13: a successful normalize_all_mp3_files replaces exactly the regular files
\* named *.mp3 (in any case) that were there when it listed the directory, each
\* once, by their normalized audio; the entry names afterwards are the names
\* before, temporary files are never normalized themselves, every other entry
\* is as it was, and with no qualifying file it returns without running ffmpeg
\* or touching anything.
C13_Frame == [][C13_Step]_vars

\* A batch has returned: two files normalized (one named in upper case), beside
\* a directory named b.mp3 and a regular file o.wav, both as they were.
C13_Witness ==
    /\ pc = "Validate" /\ "normalization_completed" \in out
    /\ DOMAIN dir0 = {Mp3Name("a"), Mp3Name("b"), StaleName, StaleWav}
    /\ dir0[Mp3Name("b")].kind = "dir" /\ dir[Mp3Name("b")] = dir0[Mp3Name("b")]
    /\ dir[StaleWav] = dir0[StaleWav]
    /\ dir[Mp3Name("a")].norm /\ dir[StaleName].norm
    /\ ~dir0[Mp3Name("a")].norm /\ ~dir0[StaleName].norm

====
